---- MODULE Spec2Model ----
(***************************************************************************)
(* EquityResearch: the research pipeline of src/App.tsx.                   *)
(*                                                                         *)
(* src/App.tsx holds two versions of the App component (lines 24-387 and   *)
(* lines 409-575).  Both are modelled; the variable `version` says which   *)
(* one a behaviour runs.  The React state of the component is `state` and  *)
(* `hasApiKey`; every invocation of the async function startResearch is a  *)
(* record of `runs` holding its closure variables and its position.        *)
(* setState with an updater function is applied to the latest state, so    *)
(* every handler and every continuation between two awaits is one atomic   *)
(* action.  Handlers are enabled when the element they are bound to is     *)
(* rendered and not disabled.  `store` is localStorage[HISTORY_KEY];       *)
(* `clock` is the last value Date.now() returned.  The fields calls,       *)
(* saves, reauth, failedAt, err and abandoned of an invocation record what *)
(* it has done and, while it awaits, whether reset() was called since.  In *)
(* the first version getDocumentSources awaits the probes of               *)
(* verifyPdfLinks: the fields urls and probes of the invocation hold them. *)
(* `vf` is a call of verifyPdfLinks of src/unnamed/part_001 on its own,    *)
(* followed step by step in SpecVerify.                                    *)
(***************************************************************************)
EXTENDS Integers, Sequences, FiniteSets, TLC

VARIABLES version, hasApiKey, state, store, runs, clock, vf

vars == <<version, hasApiKey, state, store, runs, clock, vf>>

(***************************************************************************)
(* Bounds of the model.                                                    *)
(***************************************************************************)
MaxRuns == 2          \* invocations of startResearch in Spec
MaxClock == 1         \* values of Date.now() in Spec: 0..MaxClock
HistMaxRuns == 6      \* invocations of startResearch in SpecHist
HistMaxClock == 1     \* values of Date.now() in SpecHist
MaxSegs == 3          \* segments of a text in SpecVerify
MaxPasses == 2        \* calls of verifyPdfLinks on one text in SpecVerify
SrcMaxRuns == 2       \* invocations of startResearch in SpecSourcing

(***************************************************************************)
(* JavaScript values.                                                      *)
(***************************************************************************)
Undefined == "<undefined>"

Truthy(s) == s # Undefined /\ s # ""

\* mutant: the left operand whatever it is
LeftOperand(a, b) == a

\* a || b on strings
OrElse(a, b) == IF Truthy(a) THEN a ELSE b

\* the subjects of Spec: invocation k is for Names[k]
Names == <<"Acme Corp", "Apple", "apple", "Bolt">>

Choices(k) == IF k \in 1..Len(Names) THEN {Names[k]} ELSE {"Bolt"}

\* the subjects of SpecHist: invocation k is for a new subject, HistNames[k],
\* or for "apple", the subject of the first invocation in another case
HistNames == <<"Apple", "Acme Corp", "Bolt", "Core", "Dyne", "Echo", "Fuji">>

HistChoices(k) == IF k \in 1..Len(HistNames) THEN {HistNames[k], "apple"} ELSE {"apple"}

\* String.prototype.toLowerCase on the subject names of the model
ToLowerCase(s) ==
    CASE s = "Apple" -> "apple"
      [] s = "Acme Corp" -> "acme corp"
      [] s = "Bolt" -> "bolt"
      [] s = "Core" -> "core"
      [] s = "Dyne" -> "dyne"
      [] s = "Echo" -> "echo"
      [] s = "Fuji" -> "fuji"
      [] OTHER -> s

\* s.replace(/\s+/g, '_') on the subject names of the model
ReplaceWhitespace(s) == IF s = "Acme Corp" THEN "Acme_Corp" ELSE s

\* the texts the generation stages return: one per invocation and stage
StageTexts(r, stage) ==
    {<<"sources", "report", "memo">>[stage] \o " #"
        \o <<"1", "2", "3", "4", "5", "6", "7", "8">>[r]}

AuthRevokedPhrase == "Requested entity was not found."

Affixes == {"", "404 ", " (NOT_FOUND)"}

\* msg.includes(phrase)
Includes(msg, phrase) ==
    \E pre \in Affixes, post \in Affixes : msg = pre \o phrase \o post

\* the values a rejected stage call can carry as err.message
ErrMessages == {"", "Network error", "404 " \o AuthRevokedPhrase}

(***************************************************************************)
(* ResearchStep, Artifact, ResearchHistoryItem, ResearchState.             *)
(***************************************************************************)
IDLE == "IDLE"
DOCUMENTS == "DOCUMENTS"
REPORT == "REPORT"
MEMO == "MEMO"
COMPLETED == "COMPLETED"
ERROR == "ERROR"

ResearchStep == {IDLE, DOCUMENTS, REPORT, MEMO, COMPLETED, ERROR}

Artifact(id, title, filename, content) ==
    [id |-> id, title |-> title, filename |-> filename, content |-> content]

NoArtifact == Artifact(Undefined, Undefined, Undefined, Undefined)

DocArtifact(v, company, content) ==
    IF v = 1
    THEN Artifact("step1", "Official Document Sources",
                  ReplaceWhitespace(company) \o "_1_Document_Sources.md", content)
    ELSE Artifact("docs", "Document Sources", company \o "_sources.md", content)

ReportArtifact(v, company, content) ==
    IF v = 1
    THEN Artifact("step2", "Equity Analyst Report",
                  ReplaceWhitespace(company) \o "_2_Equity_Report.md", content)
    ELSE Artifact("report", "Equity Analyst Report", company \o "_report.md", content)

MemoArtifact(v, company, content) ==
    IF v = 1
    THEN Artifact("step3", "Investment Memo",
                  ReplaceWhitespace(company) \o "_3_Investment_Memo.md", content)
    ELSE Artifact("memo", "Investment Memo", company \o "_memo.md", content)

\* the context argument of the Stage-3 call
MemoContext(v, docs, report) ==
    IF v = 1 THEN docs \o "\n\n" \o report ELSE report

InitialState ==
    [companyName |-> "", currentStep |-> IDLE, artifacts |-> <<>>,
     history |-> <<>>, error |-> Undefined, isProcessing |-> FALSE]

(***************************************************************************)
(* The history store: localStorage[HISTORY_KEY] is absent (<<>>) or holds  *)
(* one JSON text (<<text>>); a JSON text is modelled by the nested tuples  *)
(* of its values in key order.                                             *)
(***************************************************************************)
SeqMap(Op(_), s) == [i \in 1..Len(s) |-> Op(s[i])]

Slice(s, from, to) == SubSeq(s, from + 1, IF to < Len(s) THEN to ELSE Len(s))

EncodeArtifact(a) == <<a.id, a.title, a.filename, a.content>>

DecodeArtifact(t) == Artifact(t[1], t[2], t[3], t[4])

EncodeItem(item) ==
    <<item.companyName, item.timestamp, SeqMap(EncodeArtifact, item.artifacts)>>

DecodeItem(t) ==
    [companyName |-> t[1], timestamp |-> t[2], artifacts |-> SeqMap(DecodeArtifact, t[3])]

JSONStringify(history) == SeqMap(EncodeItem, history)

JSONParse(text) == SeqMap(DecodeItem, text)

NewItem(companyName, artifacts, now) ==
    [companyName |-> companyName, timestamp |-> now, artifacts |-> artifacts]

HistoryLimit == 5

\* mutant: slice(-5), the last five entries are kept
UpdatedHistoryKeepLast(history, newItem) ==
    LET Other(item) == ToLowerCase(item.companyName) # ToLowerCase(newItem.companyName)
        all == <<newItem>> \o SelectSeq(history, Other)
    IN  SubSeq(all, IF Len(all) > HistoryLimit THEN Len(all) - HistoryLimit + 1 ELSE 1,
               Len(all))

\* the updater of saveToHistory, first version: prev.history -> updatedHistory
UpdatedHistoryV1(history, newItem) ==
    LET Other(item) == ToLowerCase(item.companyName) # ToLowerCase(newItem.companyName)
    IN  Slice(<<newItem>> \o SelectSeq(history, Other), 0, HistoryLimit)

\* the updater of saveToHistory, second version
UpdatedHistoryV2(history, newItem) ==
    LET Other(h) == h.companyName # newItem.companyName
    IN  Slice(<<newItem>> \o SelectSeq(history, Other), 0, HistoryLimit)

UpdatedHistory(v, history, newItem) ==
    IF v = 1 THEN UpdatedHistoryV1(history, newItem)
             ELSE UpdatedHistoryV2(history, newItem)

\* saveToHistory: the state and the store after the updater has run
SaveToHistoryState(v, prev, companyName, artifacts, now) ==
    [prev EXCEPT !.history =
        UpdatedHistory(v, prev.history, NewItem(companyName, artifacts, now))]

SaveToHistoryStore(v, prev, companyName, artifacts, now) ==
    <<JSONStringify(
        UpdatedHistory(v, prev.history, NewItem(companyName, artifacts, now)))>>

(***************************************************************************)
(* verifyPdfLinks (src/unnamed/part_001).  A text is a sequence of pieces  *)
(* of characters: the scheme "https://", the suffixes ".pdf" and ".PDF",   *)
(* letters, and the separators blank, "|" and ")".  The inline markers and *)
(* the lines of the verification report are pieces too; each of them       *)
(* starts with white space or follows a piece that ends with it.  The      *)
(* symbols of the markers and of the report are written as code points.    *)
(***************************************************************************)
Scheme == "https://"

\* what \.pdf matches under the flag i
Suffixes == {".pdf", ".PDF"}

\* the pieces all of whose characters belong to [^\s|)]
UrlChars == {Scheme, ".pdf", ".PDF", "a", "b"}

\* /https?:\/\/[^\s|)]+?\.pdf/ tried at position i, the body already matched
\* up to j - 2: the lazy quantifier takes one more piece, then tries \.pdf.
\* The result is the position of the suffix, 0 when there is no match at i.
RECURSIVE LazyMatch(_, _, _)
LazyMatch(text, i, j) ==
    IF j > Len(text) THEN 0
    ELSE IF text[j - 1] \notin UrlChars THEN 0
    ELSE IF text[j] \in Suffixes THEN j
    ELSE LazyMatch(text, i, j + 1)

\* String.prototype.match with the flag g: the matches from position i on,
\* leftmost first, the search resuming after each match
RECURSIVE MatchAll(_, _)
MatchAll(text, i) ==
    IF i > Len(text) THEN <<>>
    ELSE LET j == IF text[i] = Scheme THEN LazyMatch(text, i, i + 2) ELSE 0
         IN  IF j = 0 THEN MatchAll(text, i + 1)
             ELSE <<SubSeq(text, i, j)>> \o MatchAll(text, j + 1)

Contains(s, x) == \E i \in 1..Len(s) : s[i] = x

\* mutant: every match is kept
KeepAll(s) == s

\* Array.from(new Set(s)): the first occurrence of each element, in order
RECURSIVE Unique(_)
Unique(s) ==
    IF s = <<>> THEN <<>>
    ELSE LET front == Unique(SubSeq(s, 1, Len(s) - 1))
         IN  IF Contains(front, s[Len(s)]) THEN front ELSE Append(front, s[Len(s)])

\* the urls of verifyPdfLinks
Urls(markdown) == Unique(MatchAll(markdown, 1))

\* mutant: the text is always annotated
NeverEarly(urls) == FALSE

\* if (urls.length === 0) return markdown
EarlyReturn(urls) == Len(urls) = 0

(***************************************************************************)
(* The probe of one URL: what fetchWithTimeout does.                       *)
(***************************************************************************)
Null == "<null>"

Pending == [kind |-> "pending"]

ContentTypes == {Null, "application/pdf", "Application/PDF", "text/html"}

Response(ok, contentType) == [kind |-> "response", ok |-> ok, contentType |-> contentType]

\* the errors fetch rejects with: the abort of the timer, and a network
\* failure or a cross-origin refusal
Rejection(name) == [kind |-> "error", name |-> name]

Outcomes ==
    {Response(TRUE, ct) : ct \in ContentTypes}
        \cup {Response(FALSE, "text/html")}
        \cup {Rejection("AbortError"), Rejection("TypeError")}

\* String.prototype.toLowerCase on the content types of the model
ContentTypeToLowerCase(ct) == IF ct = "Application/PDF" THEN "application/pdf" ELSE ct

\* includes('pdf') on the content types of the model
IncludesPdf(ct) == \E pre \in {"", "application/"}, post \in {"", "; charset=binary"} :
                      ct = pre \o "pdf" \o post

\* mutant: the content type is compared in the case it came in
StatusCaseSensitive(outcome) ==
    IF outcome.kind = "error" THEN "unverifiable"
    ELSE IF outcome.ok
         THEN IF outcome.contentType # Null /\ IncludesPdf(outcome.contentType)
              THEN "verified" ELSE "invalid"
         ELSE "dead"

\* the status one probe returns
Status(outcome) ==
    IF outcome.kind = "error" THEN "unverifiable"
    ELSE IF outcome.ok
         THEN IF outcome.contentType # Null
                   /\ IncludesPdf(ContentTypeToLowerCase(outcome.contentType))
              THEN "verified" ELSE "invalid"
         ELSE "dead"

\* mutant: the callback has no catch block
ProbeCallbackUncaught(outcome) ==
    IF outcome.kind = "error"
    THEN [settled |-> "rejected", status |-> Undefined]
    ELSE [settled |-> "fulfilled", status |-> Status(outcome)]

\* lines 43-57: the promise the callback of urls.map returns for a probe
\* that has settled; the catch block turns every error into a result
ProbeCallback(outcome) == [settled |-> "fulfilled", status |-> Status(outcome)]

\* Promise.all rejects: the promise of one callback has rejected
Rejects(probes) ==
    \E k \in 1..Len(probes) :
        probes[k] # Pending /\ ProbeCallback(probes[k]).settled = "rejected"

\* the message of the error fetch rejects with
FetchErrorMessage == "Failed to fetch"

(***************************************************************************)
(* The annotation of the text and the verification report.                 *)
(***************************************************************************)
MarkVerified == " U+2705"

MarkInvalid == " U+26A0 (Verified as Non-PDF)"

MarkDead == " U+274C (Dead Link)"

Markers == {MarkVerified, MarkInvalid, MarkDead}

SummaryHeader == "\n\n---\n### U+1F50D Link Verification Report\n"

AlertLine ==
    "- **Alert**: One or more links returned an error or incorrect content type. Please verify manually.\n"

NoteLine(count) ==
    "- **Note**: " \o ToString(count)
        \o " link(s) could not be automatically verified due to domain-level security (CORS) or connection timeouts. These are likely official documents that require manual opening.\n"

SuccessLine ==
    "- **Success**: All reachable links were successfully verified as valid PDF documents.\n"

\* text.replace(new RegExp(escaped url, 'g'), replacement) from position i on
RECURSIVE ReplaceAll(_, _, _, _)
ReplaceAll(text, url, replacement, i) ==
    IF i + Len(url) - 1 > Len(text) THEN SubSeq(text, i, Len(text))
    ELSE IF SubSeq(text, i, i + Len(url) - 1) = url
         THEN replacement \o ReplaceAll(text, url, replacement, i + Len(url))
         ELSE <<text[i]>> \o ReplaceAll(text, url, replacement, i + 1)

\* one turn of results.forEach on enrichedMarkdown
Marked(enriched, result) ==
    CASE result.status = "verified" ->
             ReplaceAll(enriched, result.url, Append(result.url, MarkVerified), 1)
      [] result.status = "invalid" ->
             ReplaceAll(enriched, result.url, Append(result.url, MarkInvalid), 1)
      [] result.status = "dead" ->
             ReplaceAll(enriched, result.url, Append(result.url, MarkDead), 1)
      [] OTHER -> enriched

\* enrichedMarkdown after results.forEach
RECURSIVE Enriched(_, _)
Enriched(markdown, results) ==
    IF results = <<>> THEN markdown
    ELSE Marked(Enriched(markdown, SubSeq(results, 1, Len(results) - 1)),
                results[Len(results)])

HasIssues(results) ==
    \E k \in 1..Len(results) : results[k].status \in {"invalid", "dead"}

UnverifiableCount(results) ==
    Cardinality({k \in 1..Len(results) : results[k].status = "unverifiable"})

\* mutant: one line, the alert before the note before the success
SummaryByPriority(results) ==
    <<SummaryHeader>>
        \o (IF HasIssues(results) THEN <<AlertLine>>
            ELSE IF UnverifiableCount(results) > 0
                 THEN <<NoteLine(UnverifiableCount(results))>>
                 ELSE <<SuccessLine>>)

\* the summary that is appended to the annotated text
Summary(results) ==
    <<SummaryHeader>>
        \o (IF HasIssues(results) THEN <<AlertLine>> ELSE <<>>)
        \o (IF UnverifiableCount(results) > 0
            THEN <<NoteLine(UnverifiableCount(results))>>
            ELSE IF ~HasIssues(results) THEN <<SuccessLine>> ELSE <<>>)

\* what Promise.all resolves to: one result per url whose probe has settled
Results(urls, probes) ==
    [k \in 1..Len(urls) |->
        [url |-> urls[k],
         status |-> IF probes[k] = Pending THEN "pending" ELSE Status(probes[k])]]

\* lines 60-89: the text verifyPdfLinks returns for these results
Annotated(markdown, results) == Enriched(markdown, results) \o Summary(results)

\* verifyPdfLinks as a function of the text and of the outcome of the probe
\* of each URL
VerifyPdfLinks(markdown, outcomeOf) ==
    LET urls == Urls(markdown)
    IN  IF EarlyReturn(urls) THEN markdown
        ELSE Annotated(markdown, Results(urls, [k \in 1..Len(urls) |-> outcomeOf[urls[k]]]))

\* verifyPdfLinks rejects instead of returning a text
VerifyThrows(markdown, outcomeOf) ==
    LET urls == Urls(markdown)
    IN  ~EarlyReturn(urls) /\ Rejects([k \in 1..Len(urls) |-> outcomeOf[urls[k]]])

\* the string a text stands for
RECURSIVE Render(_)
Render(text) == IF text = <<>> THEN "" ELSE text[1] \o Render(Tail(text))

\* no call of verifyPdfLinks is followed step by step
VfIdle ==
    [pc |-> "idle", pass |-> 0, markdown |-> <<>>, urls |-> <<>>,
     probes |-> <<>>, fetched |-> <<>>, output |-> <<>>, prior |-> <<>>]

(***************************************************************************)
(* getDocumentSources.  The first version of App runs with the service of  *)
(* src/unnamed/part_001, which passes the text of the model's response     *)
(* through verifyPdfLinks; the second version runs with                    *)
(* src/services/geminiService.ts, which returns the text as it is.         *)
(***************************************************************************)
\* response.text of the Stage-1 call of invocation r: prose and one link
RawSources(r) == {<<prose, " ", Scheme, "a", ".pdf">> : prose \in StageTexts(r, 1)}

\* response.text of the Stage-1 call in SpecHist: prose without a link
HistRawSources(r) == {<<prose>> : prose \in StageTexts(r, 1)}

UrlSet(markdown) == {Urls(markdown)[k] : k \in 1..Len(Urls(markdown))}

\* the outcomes of the probes of a Stage-1 text in Spec and SpecHist
SpecOutcomes == {Response(TRUE, "application/pdf")}

SpecProbes(raw) == [UrlSet(raw) -> SpecOutcomes]

GetDocumentSourcesV1(raw, outcomeOf) == Render(VerifyPdfLinks(raw, outcomeOf))

GetDocumentSourcesV2(raw) == OrElse(Render(raw), "No documents found.")

GetDocumentSources(v, raw, outcomeOf) ==
    IF v = 1 THEN GetDocumentSourcesV1(raw, outcomeOf) ELSE GetDocumentSourcesV2(raw)

\* getDocumentSources rejects although generateContent has resolved
GetDocumentSourcesRejects(v, raw, outcomeOf) == v = 1 /\ VerifyThrows(raw, outcomeOf)

\* the settlements of fetch itself; the abort comes from the timer
FetchOutcomes == Outcomes \ {Rejection("AbortError")}

\* mutant: the probes of a call share one AbortController
AbortedAll(probes, k) ==
    [j \in 1..Len(probes) |->
        IF probes[j] = Pending THEN Rejection("AbortError") ELSE probes[j]]

\* lines 13-14: controller.abort() of the k-th fetchWithTimeout; its fetch
\* rejects
Aborted(probes, k) == [probes EXCEPT ![k] = Rejection("AbortError")]

\* mutant: the call goes on as soon as one probe has settled
AnySettled(probes) == \E k \in 1..Len(probes) : probes[k] # Pending

\* Promise.all resolves
AllSettled(probes) == \A k \in 1..Len(probes) : probes[k] # Pending

(***************************************************************************)
(* Invocations of startResearch.                                           *)
(***************************************************************************)
Live == {"stage1", "stage2", "stage3"}

StageOf(pc) == CASE pc = "stage1" -> 1 [] pc = "stage2" -> 2 [] pc = "stage3" -> 3

StageCall(stage, company, context) ==
    [stage |-> stage, companyName |-> company, context |-> context]

\* mutant: the three stage calls are issued together when the run starts
NewRunAllAtOnce(company) ==
    [pc |-> "stage1", targetCompany |-> company, rawMarkdown |-> <<>>,
     docSourcesContent |-> Undefined, docArtifact |-> NoArtifact,
     equityReportContent |-> Undefined, reportArtifact |-> NoArtifact,
     calls |-> <<StageCall(1, company, Undefined), StageCall(2, company, Undefined),
                 StageCall(3, company, Undefined)>>,
     saves |-> <<>>, reauth |-> 0, failedAt |-> 0, err |-> Undefined,
     urls |-> <<>>, probes |-> <<>>, abandoned |-> FALSE]

NewRun(company) ==
    [pc |-> "stage1", targetCompany |-> company, rawMarkdown |-> <<>>,
     docSourcesContent |-> Undefined, docArtifact |-> NoArtifact,
     equityReportContent |-> Undefined, reportArtifact |-> NoArtifact,
     \* what the invocation has done so far
     calls |-> <<StageCall(1, company, Undefined)>>,
     saves |-> <<>>, reauth |-> 0, failedAt |-> 0, err |-> Undefined,
     urls |-> <<>>, probes |-> <<>>, abandoned |-> FALSE]

LiveRuns == {r \in 1..Len(runs) : runs[r].pc \in Live}

\* invocation r awaits verifyPdfLinks: generateContent has resolved
Verifying(r) ==
    /\ r \in 1..Len(runs)
    /\ runs[r].pc = "stage1"
    /\ runs[r].rawMarkdown # <<>>

\* invocation r awaits the response of a stage's generateContent
Generating(r) ==
    /\ r \in 1..Len(runs)
    /\ runs[r].pc \in Live
    /\ ~Verifying(r)

\* the invocations that await the call of this stage
Awaiting(pc) == {r \in 1..Len(runs) : runs[r].pc = pc}

\* mutant: the form is rendered unless the key is known to be missing
KeyNotRefused == hasApiKey # "false"

\* the screen with the form, the header and the history list is rendered
MainScreen == hasApiKey = "true"

(***************************************************************************)
(* Mount of the component: the state of useState, then the effect that     *)
(* starts checkKey and loads the saved history.  A page load ends every    *)
(* invocation still awaiting a stage call.                                 *)
(***************************************************************************)
\* checkKey up to its first await: "true" when process.env.API_KEY is set
KeyAtMount == {"true", "null"}

LoadedHistory(saved) == IF saved = <<>> THEN <<>> ELSE JSONParse(saved[1])

Mount ==
    /\ state' = [InitialState EXCEPT !.history = LoadedHistory(store)]
    /\ hasApiKey' \in KeyAtMount
    /\ runs' = [r \in 1..Len(runs) |->
                  IF runs[r].pc \in Live
                  THEN [runs[r] EXCEPT !.pc = "unloaded", !.abandoned = FALSE]
                                         ELSE runs[r]]
    /\ UNCHANGED <<vf, version, store, clock>>

Init ==
    /\ version \in {1, 2}
    /\ hasApiKey \in KeyAtMount
    /\ state = InitialState
    /\ store = <<>>
    /\ runs = <<>>
    /\ clock = 0
    /\ vf = VfIdle


\* checkKey after the await: hasSelectedApiKey() resolved to `selected`, or threw
CheckKey(selected) ==
    /\ hasApiKey = "null"
    /\ hasApiKey' = IF selected THEN "true" ELSE "false"
    /\ UNCHANGED <<vf, version, state, store, runs, clock>>

\* handleConnectKey after openSelectKey() has resolved
HandleConnectKey ==
    /\ hasApiKey = "false"
    /\ hasApiKey' = "true"
    /\ UNCHANGED <<vf, version, state, store, runs, clock>>

\* onChange of the input, which is disabled while isProcessing
SetCompanyName(name) ==
    /\ MainScreen
    /\ ~state.isProcessing
    /\ state' = [state EXCEPT !.companyName = name]
    /\ UNCHANGED <<vf, version, hasApiKey, store, runs, clock>>

\* mutant: only an empty subject is refused
RefusedWhenEmpty(prev) == ~Truthy(prev.companyName)

\* if (!state.companyName || state.isProcessing) return
Refused(prev) == ~Truthy(prev.companyName) \/ prev.isProcessing

\* startResearch up to its first await
StartResearch(maxRuns) ==
    /\ MainScreen
    /\ ~Refused(state)
    /\ Len(runs) < maxRuns
    /\ state' = [state EXCEPT !.isProcessing = TRUE, !.currentStep = DOCUMENTS,
                              !.artifacts = <<>>, !.error = Undefined]
    /\ runs' = Append(runs, NewRun(state.companyName))
    /\ UNCHANGED <<vf, version, hasApiKey, store, clock>>

\* the catch block of startResearch
DefaultErrorV1 == "An unexpected error occurred during research."

DefaultErrorV2 == "An error occurred during research."

\* the catch block, first version: is the error the revoked-key error
IsRevoked(message) == Includes(OrElse(message, ""), AuthRevokedPhrase)

CatchRevokedV1(prev) == [prev EXCEPT !.isProcessing = FALSE, !.currentStep = IDLE]

\* mutant: the catch block saves what the run has produced
CatchErrorSavingPartial(prev, message) ==
    [prev EXCEPT !.isProcessing = FALSE,
                 !.error = OrElse(OrElse(message, ""), DefaultErrorV1),
                 !.currentStep = ERROR,
                 !.history = UpdatedHistoryV1(@, NewItem(prev.companyName,
                                                         prev.artifacts, clock))]

CatchErrorV1(prev, message) ==
    [prev EXCEPT !.isProcessing = FALSE,
                 !.error = OrElse(OrElse(message, ""), DefaultErrorV1),
                 !.currentStep = ERROR]

\* the catch block, second version
CatchErrorV2(prev, message) ==
    [prev EXCEPT !.isProcessing = FALSE, !.currentStep = ERROR,
                 !.error = OrElse(message, DefaultErrorV2)]

\* does this version's catch block take the reauthorization branch
Reauthorizes(v, message) == v = 1 /\ IsRevoked(message)

\* mutant: the catch block leaves isProcessing as it is
CatchStillProcessing(v, prev, message) ==
    [prev EXCEPT !.currentStep = ERROR, !.error = OrElse(message, DefaultErrorV2)]

Catch(v, prev, message) ==
    IF v = 1
    THEN IF IsRevoked(message) THEN CatchRevokedV1(prev) ELSE CatchErrorV1(prev, message)
    ELSE CatchErrorV2(prev, message)

\* mutant: the catch block issues the rejected call again
CaughtRetrying(run, revoked, message) ==
    [run EXCEPT !.failedAt = StageOf(run.pc), !.err = message,
                !.calls = Append(@, @[Len(@)])]

\* the invocation after its catch block: it returns, no further call is made
Caught(run, revoked, message) ==
    [run EXCEPT !.pc = IF revoked THEN "reauth" ELSE "failed",
                !.failedAt = StageOf(run.pc), !.err = message,
                !.reauth = IF revoked THEN @ + 1 ELSE @, !.abandoned = FALSE]

\* the state updates after the first and after the second await
PublishDocs(prev, docArtifact) ==
    [prev EXCEPT !.artifacts = <<docArtifact>>, !.currentStep = REPORT]

\* mutant: the report is published ahead of the sources
PublishReportSwapped(prev, docArtifact, reportArtifact) ==
    [prev EXCEPT !.artifacts = <<reportArtifact, docArtifact>>, !.currentStep = MEMO]

PublishReport(prev, docArtifact, reportArtifact) ==
    [prev EXCEPT !.artifacts = <<docArtifact, reportArtifact>>, !.currentStep = MEMO]

\* getDocumentSources has settled: from the first await of startResearch to
\* the second, or to the catch block if verifyPdfLinks rejected
Stage1Return(r, raw, probes, rejects, text) ==
    /\ runs[r].pc = "stage1"
    /\ LET run == [runs[r] EXCEPT !.rawMarkdown = raw, !.probes = probes]
           docArtifact == DocArtifact(version, run.targetCompany, text)
       IN  IF rejects
           THEN /\ state' = Catch(version, state, FetchErrorMessage)
                /\ runs' = [runs EXCEPT ![r] = Caught(run, FALSE, FetchErrorMessage)]
           ELSE /\ state' = PublishDocs(state, docArtifact)
                /\ runs' = [runs EXCEPT ![r] =
                       [run EXCEPT !.pc = "stage2",
                                   !.docSourcesContent = text,
                                   !.docArtifact = docArtifact,
                                   !.calls = Append(@, StageCall(2, run.targetCompany,
                                                                 text))]]
    /\ UNCHANGED <<version, hasApiKey, store, clock>>

\* does getDocumentSources await the probes of verifyPdfLinks for this text
AwaitsProbes(v, raw) == v = 1 /\ ~EarlyReturn(Urls(raw))

\* generateContent of Stage 1 has resolved and getDocumentSources settles
\* with it: the second version, or a text in which verifyPdfLinks finds no
\* URL, so that no probe is awaited
Stage1Resolve(r, raw) ==
    /\ ~AwaitsProbes(version, raw)
    /\ Stage1Return(r, raw, <<>>, FALSE, GetDocumentSources(version, raw, <<>>))
    /\ UNCHANGED vf

\* part_001 lines 95-120 and 35-43: generateContent of Stage 1 has resolved;
\* verifyPdfLinks extracts the URLs and starts one probe per URL, and
\* getDocumentSources goes on awaiting
Stage1Probing(r, raw) ==
    /\ runs[r].pc = "stage1"
    /\ AwaitsProbes(version, raw)
    /\ runs' = [runs EXCEPT ![r] =
           [@ EXCEPT !.rawMarkdown = raw, !.urls = Urls(raw),
                     !.probes = [k \in 1..Len(Urls(raw)) |-> Pending]]]
    /\ UNCHANGED <<vf, version, hasApiKey, state, store, clock>>

\* generateContent of Stage 1 has resolved with this text
Stage1Generated(r, raw) ==
    /\ Generating(r)
    /\ runs[r].pc = "stage1"
    /\ (Stage1Resolve(r, raw) \/ Stage1Probing(r, raw))

\* part_001 lines 42-89 and 120: a probe of invocation r has settled.  When
\* it was the last one pending, Promise.all resolves, verifyPdfLinks
\* returns the annotated text and startResearch goes on, all in this step
Stage1Probed(r, probes) ==
    /\ Verifying(r)
    /\ IF AllSettled(probes)
       THEN Stage1Return(r, runs[r].rawMarkdown, probes, Rejects(probes),
                         Render(Annotated(runs[r].rawMarkdown,
                                          Results(runs[r].urls, probes))))
       ELSE /\ runs' = [runs EXCEPT ![r].probes = probes]
            /\ UNCHANGED <<version, hasApiKey, state, store, clock>>
    /\ UNCHANGED vf

\* the fetch of the k-th probe of invocation r settles before its timer
\* expires
Stage1ProbeSettle(r, k, outcome) ==
    /\ Verifying(r)
    /\ k \in 1..Len(runs[r].probes)
    /\ runs[r].probes[k] = Pending
    /\ Stage1Probed(r, [runs[r].probes EXCEPT ![k] = outcome])

\* mutant: fetch is called without a timer
Stage1NoTimeout(r, k) == FALSE /\ UNCHANGED vars

\* the timer of the k-th probe of invocation r expires before its fetch has
\* settled
Stage1ProbeTimeout(r, k) ==
    /\ Verifying(r)
    /\ k \in 1..Len(runs[r].probes)
    /\ runs[r].probes[k] = Pending
    /\ Stage1Probed(r, Aborted(runs[r].probes, k))

\* getEquityReport resolved: from the second await to the third
Stage2Resolve(r, text) ==
    /\ runs[r].pc = "stage2"
    /\ LET run == runs[r]
           reportArtifact == ReportArtifact(version, run.targetCompany, text)
       IN  /\ state' = PublishReport(state, run.docArtifact, reportArtifact)
           /\ runs' = [runs EXCEPT ![r] =
                  [run EXCEPT !.pc = "stage3", !.equityReportContent = text,
                              !.reportArtifact = reportArtifact,
                              !.calls = Append(@, StageCall(3, run.targetCompany,
                                   MemoContext(version, run.docSourcesContent, text)))]]
    /\ UNCHANGED <<vf, version, hasApiKey, store, clock>>

\* the state update after the third await
Completed(prev, finalArtifacts) ==
    [prev EXCEPT !.artifacts = finalArtifacts, !.currentStep = COMPLETED,
                 !.isProcessing = FALSE]

\* mutant: the subject is read from the state when the run completes
SaveArgsCurrentSubject(run, finalArtifacts) ==
    [companyName |-> state.companyName, artifacts |-> finalArtifacts]

\* the arguments of the saveToHistory call that ends the try block
SaveArgs(run, finalArtifacts) ==
    [companyName |-> run.targetCompany, artifacts |-> finalArtifacts]

\* getInvestmentMemo resolved: from the third await to the end of the try block
Stage3Resolve(r, text, now) ==
    /\ runs[r].pc = "stage3"
    /\ LET run == runs[r]
           memoArtifact == MemoArtifact(version, run.targetCompany, text)
           finalArtifacts == <<run.docArtifact, run.reportArtifact, memoArtifact>>
           completed == Completed(state, finalArtifacts)
           args == SaveArgs(run, finalArtifacts)
           saved == SaveToHistoryState(version, completed, args.companyName,
                                       args.artifacts, now)
           saved_store == SaveToHistoryStore(version, completed, args.companyName,
                                             args.artifacts, now)
       IN  /\ state' = saved
           /\ store' = saved_store
           /\ runs' = [runs EXCEPT ![r] =
                  [run EXCEPT !.pc = "done", !.saves = Append(@, args),
                              !.abandoned = FALSE]]
           /\ clock' = now
    /\ UNCHANGED <<vf, version, hasApiKey>>

\* a stage call rejected with an error whose message is `message`
StageFail(r, message) ==
    /\ Generating(r)
    /\ LET run == runs[r]
           revoked == Reauthorizes(version, message)
           caught == Catch(version, state, message)
           key == IF revoked THEN "false" ELSE hasApiKey
       IN  /\ state' = caught
           /\ hasApiKey' = key
           /\ runs' = [runs EXCEPT ![r] = Caught(run, revoked, message)]
    /\ UNCHANGED <<vf, version, store, clock>>

\* mutant: reset also empties the history list
ResetClearingHistory ==
    /\ MainScreen
    /\ state' = [InitialState EXCEPT !.history = <<>>]
    /\ UNCHANGED <<vf, version, hasApiKey, store, runs, clock>>

\* reset: the header logo and the "Start New Analysis" button
Reset ==
    /\ MainScreen
    /\ state' = [state EXCEPT !.companyName = "", !.currentStep = IDLE,
                              !.artifacts = <<>>, !.isProcessing = FALSE,
                              !.error = Undefined]
    /\ runs' = [r \in 1..Len(runs) |->
                  IF runs[r].pc \in Live THEN [runs[r] EXCEPT !.abandoned = TRUE]
                                         ELSE runs[r]]
    /\ UNCHANGED <<vf, version, hasApiKey, store, clock>>

\* the "Recent Analyses" list is rendered (first version only)
HistoryListShown ==
    /\ version = 1
    /\ MainScreen
    /\ ~state.isProcessing
    /\ state.currentStep = IDLE
    /\ Len(state.history) > 0

LoadFromHistory(i) ==
    /\ HistoryListShown
    /\ i \in 1..Len(state.history)
    /\ LET item == state.history[i]
       IN  state' = [state EXCEPT !.companyName = item.companyName,
                                  !.artifacts = item.artifacts,
                                  !.currentStep = COMPLETED,
                                  !.isProcessing = FALSE, !.error = Undefined]
    /\ UNCHANGED <<vf, version, hasApiKey, store, runs, clock>>

Next ==
    \/ Mount
    \/ \E selected \in BOOLEAN : CheckKey(selected)
    \/ HandleConnectKey
    \/ \E name \in Choices(Len(runs) + 1) \cup {""} : SetCompanyName(name)
    \/ StartResearch(MaxRuns)
    \/ \E r \in Awaiting("stage1") : \E raw \in RawSources(r) : Stage1Generated(r, raw)
    \/ \E r \in Awaiting("stage1") :
          \E k \in 1..Len(runs[r].probes), outcome \in SpecOutcomes :
              Stage1ProbeSettle(r, k, outcome)
    \/ \E r \in 1..Len(runs) : \E text \in StageTexts(r, 2) : Stage2Resolve(r, text)
    \/ \E r \in 1..Len(runs) : \E text \in StageTexts(r, 3), now \in 0..MaxClock :
          Stage3Resolve(r, text, now)
    \/ \E r \in 1..Len(runs), message \in ErrMessages : StageFail(r, message)
    \/ Reset
    \/ \E i \in 1..HistoryLimit : LoadFromHistory(i)

Spec == Init /\ [][Next]_vars

(***************************************************************************)
(* SpecHist: the history under runs that follow one another (no failure,   *)
(* no reset or page load while a run is processing), for enough subjects   *)
(* to fill it, and under a clock that is not set back: Date.now() returns  *)
(* no less than it returned the time before.                               *)
(***************************************************************************)
NextHist ==
    \/ ~state.isProcessing /\ Mount
    \/ \E selected \in BOOLEAN : CheckKey(selected)
    \/ HandleConnectKey
    \/ \E name \in HistChoices(Len(runs) + 1) : SetCompanyName(name)
    \/ StartResearch(HistMaxRuns)
    \/ \E r \in Awaiting("stage1") : \E raw \in HistRawSources(r) : Stage1Resolve(r, raw)
    \/ \E r \in 1..Len(runs) : \E text \in StageTexts(r, 2) : Stage2Resolve(r, text)
    \/ \E r \in 1..Len(runs) : \E text \in StageTexts(r, 3), now \in clock..HistMaxClock :
          Stage3Resolve(r, text, now)
    \/ ~state.isProcessing /\ Reset
    \/ \E i \in 1..HistoryLimit : LoadFromHistory(i)

SpecHist == Init /\ [][NextHist]_vars

(***************************************************************************)
(* SpecSourcing: runs that follow one another, the probes of the Stage-1   *)
(* links settling in every way fetchWithTimeout can settle.                *)
(***************************************************************************)
NextSourcing ==
    \/ \E selected \in BOOLEAN : CheckKey(selected)
    \/ HandleConnectKey
    \/ \E name \in Choices(Len(runs) + 1) : SetCompanyName(name)
    \/ StartResearch(SrcMaxRuns)
    \/ \E r \in Awaiting("stage1") : \E raw \in RawSources(r) : Stage1Generated(r, raw)
    \/ \E r \in Awaiting("stage1") :
          \E k \in 1..Len(runs[r].probes), outcome \in FetchOutcomes :
              Stage1ProbeSettle(r, k, outcome)
    \/ \E r \in Awaiting("stage1") : \E k \in 1..Len(runs[r].probes) :
          Stage1ProbeTimeout(r, k)
    \/ \E r \in 1..Len(runs) : \E text \in StageTexts(r, 2) : Stage2Resolve(r, text)
    \/ \E r \in 1..Len(runs) : \E text \in StageTexts(r, 3) : Stage3Resolve(r, text, clock)
    \/ \E r \in 1..Len(runs), message \in ErrMessages : StageFail(r, message)

SpecSourcing == Init /\ [][NextSourcing]_vars


(***************************************************************************)
(* SpecVerify: calls of verifyPdfLinks.  The call extracts the URLs and    *)
(* starts one probe per URL, all in the same step; the probes settle one   *)
(* by one in any order; Promise.all resolves when all have settled, and    *)
(* the call returns the annotated text.  The caller may then pass the      *)
(* returned text to verifyPdfLinks again; SpecVerify follows the second    *)
(* calls in which every URL probed before settles as it did before.        *)
(***************************************************************************)
\* the texts of SpecVerify are made of these
Segments ==
    {<<Scheme, "a", ".pdf">>, <<Scheme, Scheme, "a", ".pdf">>,
     <<Scheme, "b", ".PDF", "|">>, <<Scheme, ".pdf">>, <<" ">>}

RECURSIVE Flatten(_)
Flatten(ss) == IF ss = <<>> THEN <<>> ELSE ss[1] \o Flatten(Tail(ss))

VerifyTexts ==
    {Flatten(ss) : ss \in UNION {[1..k -> Segments] : k \in 0..MaxSegs}}

VerifyCall(markdown, pass, prior) ==
    [pc |-> "called", pass |-> pass, markdown |-> markdown, urls |-> <<>>,
     probes |-> <<>>, fetched |-> <<>>, output |-> <<>>, prior |-> prior]

InitVerify ==
    /\ version = 1
    /\ hasApiKey = "true"
    /\ state = InitialState
    /\ store = <<>>
    /\ runs = <<>>
    /\ clock = 0
    /\ vf \in {VerifyCall(markdown, 1, <<>>) : markdown \in VerifyTexts}

\* lines 37-43: the URLs are extracted and every probe is started
VerifyStart ==
    /\ vf.pc = "called"
    /\ LET urls == Urls(vf.markdown)
       IN  vf' = IF EarlyReturn(urls)
                 THEN [vf EXCEPT !.pc = "returned", !.urls = urls,
                                 !.output = vf.markdown]
                 ELSE [vf EXCEPT !.pc = "probing", !.urls = urls,
                                 !.probes = [k \in 1..Len(urls) |-> Pending],
                                 !.fetched = urls]
    /\ UNCHANGED <<version, hasApiKey, state, store, runs, clock>>

\* the scenario of NextVerify: the probe of a URL that was probed in the
\* first call settles as it did then
SameAsBefore(url, outcome) ==
    \A i \in 1..Len(vf.prior) : vf.prior[i].url = url => vf.prior[i].outcome = outcome

\* lines 44-56: the fetch of the k-th URL settles before its timer expires
ProbeSettle(k, outcome) ==
    /\ vf.pc = "probing"
    /\ k \in 1..Len(vf.urls)
    /\ vf.probes[k] = Pending
    /\ vf' = [vf EXCEPT !.probes[k] = outcome]
    /\ UNCHANGED <<version, hasApiKey, state, store, runs, clock>>

\* the timer of the k-th probe expires before its fetch has settled
ProbeTimeout(k) ==
    /\ vf.pc = "probing"
    /\ k \in 1..Len(vf.urls)
    /\ vf.probes[k] = Pending
    /\ vf' = [vf EXCEPT !.probes = Aborted(@, k)]
    /\ UNCHANGED <<version, hasApiKey, state, store, runs, clock>>

\* Promise.all has settled: lines 60-89, or the rejection is passed on
VerifyReturn ==
    /\ vf.pc = "probing"
    /\ AllSettled(vf.probes)
    /\ vf' = IF Rejects(vf.probes)
             THEN [vf EXCEPT !.pc = "threw"]
             ELSE [vf EXCEPT !.pc = "returned",
                             !.output = Annotated(vf.markdown,
                                                  Results(vf.urls, vf.probes))]
    /\ UNCHANGED <<version, hasApiKey, state, store, runs, clock>>

\* verifyPdfLinks is called on the text it has returned
VerifyAgain ==
    /\ vf.pc = "returned"
    /\ vf.pass < MaxPasses
    /\ vf' = VerifyCall(vf.output, vf.pass + 1,
                        IF vf.pass = 1
                        THEN [k \in 1..Len(vf.urls) |->
                                 [url |-> vf.urls[k], outcome |-> vf.probes[k]]]
                        ELSE vf.prior)
    /\ UNCHANGED <<version, hasApiKey, state, store, runs, clock>>

NextVerify ==
    \/ VerifyStart
    \/ \E k \in 1..Len(vf.urls), outcome \in FetchOutcomes :
          SameAsBefore(vf.urls[k], outcome) /\ ProbeSettle(k, outcome)
    \/ \E k \in 1..Len(vf.urls) :
          SameAsBefore(vf.urls[k], Rejection("AbortError")) /\ ProbeTimeout(k)
    \/ VerifyReturn
    \/ VerifyAgain

SpecVerify == InitVerify /\ [][NextVerify]_vars

(***************************************************************************)
(* SpecFair: termination.  The stage calls settle, and the probes of       *)
(* verifyPdfLinks settle or are aborted by their timers.                   *)
(***************************************************************************)
LiveMaxRuns == 1

\* the fetch of a probe in SpecFair: a PDF response or a network error
FairOutcomes == {Response(TRUE, "application/pdf"), Rejection("TypeError")}

\* the call of the stage that invocation r awaits resolves or rejects
StageSettles(r) ==
    /\ Generating(r)
    /\ \/ \E raw \in RawSources(r) \cup HistRawSources(r) : Stage1Generated(r, raw)
       \/ \E text \in StageTexts(r, 2) : Stage2Resolve(r, text)
       \/ \E text \in StageTexts(r, 3) : Stage3Resolve(r, text, clock)
       \/ \E message \in ErrMessages : StageFail(r, message)

\* the timer of a pending probe of invocation r expires
TimerFires(r) ==
    /\ Verifying(r)
    /\ \E k \in 1..Len(runs[r].probes) : Stage1ProbeTimeout(r, k)

NextFair ==
    \/ \E selected \in BOOLEAN : CheckKey(selected)
    \/ HandleConnectKey
    \/ \E name \in Choices(Len(runs) + 1) : SetCompanyName(name)
    \/ StartResearch(LiveMaxRuns)
    \/ Reset
    \/ \E r \in 1..Len(runs) : StageSettles(r)
    \/ \E r \in Awaiting("stage1") :
          \E k \in 1..Len(runs[r].probes), outcome \in FairOutcomes :
              Stage1ProbeSettle(r, k, outcome)
    \/ \E r \in 1..Len(runs) : TimerFires(r)

\* every stage call settles; a timer that is armed fires unless its fetch
\* settles first
Fairness ==
    /\ \A r \in 1..LiveMaxRuns : WF_vars(StageSettles(r))
    /\ \A r \in 1..LiveMaxRuns : WF_vars(TimerFires(r))

SpecFair == Init /\ [][NextFair]_vars /\ Fairness

(***************************************************************************)
(* Vocabulary of the properties.                                           *)
(***************************************************************************)
StageIds == IF version = 1 THEN <<"step1", "step2", "step3">>
                           ELSE <<"docs", "report", "memo">>

IsPrefix(s, t) == Len(s) <= Len(t) /\ \A i \in 1..Len(s) : s[i] = t[i]

Ids(artifacts) == [i \in 1..Len(artifacts) |-> artifacts[i].id]

RunIds == 1..Len(runs)

\* the artifacts an invocation has published so far
Published(run) ==
    CASE run.docArtifact = NoArtifact -> <<>>
      [] run.saves # <<>> -> run.saves[1].artifacts
      [] run.reportArtifact = NoArtifact -> <<run.docArtifact>>
      [] OTHER -> <<run.docArtifact, run.reportArtifact>>

\* invocation r takes its last step: the third stage resolves
Completes(r) == r \in RunIds /\ runs[r].pc = "stage3" /\ runs'[r].pc = "done"

\* invocation r takes its last step: a stage call is rejected
Fails(r) == r \in RunIds /\ runs[r].pc \in Live /\ runs'[r].pc \in {"failed", "reauth"}

LowerNames(history) == [i \in 1..Len(history) |-> ToLowerCase(history[i].companyName)]

\* C1: the artifact list is always a prefix of [sources, report, memo], the
\* artifacts of one invocation in stage order; an invocation that has ended
\* has published all three, or has failed with fewer than three.
C1_ArtifactsInStageOrder ==
    /\ IsPrefix(Ids(state.artifacts), StageIds)
    /\ \A r \in RunIds :
         /\ IsPrefix(Ids(Published(runs[r])), StageIds)
         /\ runs[r].pc = "done" => Len(Published(runs[r])) = 3
         /\ runs[r].pc \in {"failed", "reauth"} =>
              Len(Published(runs[r])) = runs[r].failedAt - 1
    /\ state.isProcessing /\ Cardinality(LiveRuns) = 1 =>
         \E r \in LiveRuns : state.artifacts = Published(runs[r])

C1_Witness ==
    \E r \in RunIds, q \in RunIds :
        /\ runs[r].pc = "done"
        /\ state.artifacts = Published(runs[r])
        /\ Len(state.artifacts) = 3
        /\ runs[q].pc = "failed" /\ runs[q].failedAt = 3

\* C2: an invocation whose stage-k call was rejected has called the stages
\* 1..k once each, in order, and is not awaiting any call.
C2_NoStageAfterFailure ==
    \A r \in RunIds :
        runs[r].failedAt > 0 =>
            /\ runs[r].pc \in {"failed", "reauth"}
            /\ [i \in 1..Len(runs[r].calls) |-> runs[r].calls[i].stage]
                 = [i \in 1..runs[r].failedAt |-> i]

C2_Witness ==
    \E r \in RunIds, q \in RunIds :
        /\ runs[r].pc = "failed" /\ runs[r].failedAt = 1 /\ Len(runs[r].calls) = 1
        /\ runs[q].pc = "failed" /\ runs[q].failedAt = 2 /\ Len(runs[q].calls) = 2

\* C3: the step in which a stage call is rejected with a generic error that
\* carries a message leaves currentStep = ERROR, error = that message,
\* isProcessing false and exactly the artifacts of the earlier stages.
C3_GenericFailureOutcome ==
    [][\A r \in RunIds :
          (Fails(r) /\ Truthy(runs'[r].err) /\ ~IsRevoked(runs'[r].err)) =>
              /\ state'.currentStep = ERROR
              /\ state'.error = runs'[r].err
              /\ ~state'.isProcessing
              /\ state'.artifacts = Published(runs[r])]_vars

\* C4: the step in which a stage call is rejected with the revoked-key error
\* leaves currentStep = IDLE, no error, isProcessing false, and raises the
\* reauthorization signal once.
C4_RevokedOutcome ==
    [][\A r \in RunIds :
          (Fails(r) /\ IsRevoked(runs'[r].err)) =>
              /\ state'.currentStep = IDLE
              /\ state'.error = Undefined
              /\ ~state'.isProcessing
              /\ hasApiKey' = "false"
              /\ runs'[r].reauth = 1]_vars

\* C5: the history and the store change only in the step that completes an
\* invocation, which prepends that invocation's three artifacts; a rejected
\* stage call leaves both unchanged; every entry holds all three artifacts.
C5_HistoryOnlyFromCompletedRuns ==
    /\ [](/\ \A i \in 1..Len(state.history) :
                Ids(state.history[i].artifacts) = StageIds
          /\ \A i \in 1..Len(LoadedHistory(store)) :
                Ids(LoadedHistory(store)[i].artifacts) = StageIds)
    /\ [][/\ (state'.history # state.history \/ store' # store) =>
               \E r \in RunIds :
                   /\ Completes(r)
                   /\ state'.currentStep = COMPLETED
                   /\ state'.history[1].artifacts = Published(runs'[r])
                   /\ Ids(state'.history[1].artifacts) = StageIds
                   /\ store' = <<JSONStringify(state'.history)>>
          /\ \A r \in RunIds :
               Fails(r) => state'.history = state.history /\ store' = store]_vars

C5_Witness ==
    \E r \in RunIds, q \in RunIds :
        /\ runs[r].pc = "done"
        /\ runs[q].pc \in {"failed", "reauth"} /\ runs[q].failedAt = 3
        /\ r < q
        /\ Len(state.history) = 1
        /\ state.history[1].artifacts = Published(runs[r])
        /\ store = <<JSONStringify(state.history)>>

\* C6: an invocation that has completed has called saveToHistory exactly
\* once, with the subject it was started with and its three artifacts in
\* stage order; an invocation that has not completed has not called it.
C6_SavedOnceWithOwnArtifacts ==
    \A r \in RunIds :
        /\ runs[r].pc = "done" =>
             /\ Len(runs[r].saves) = 1
             /\ runs[r].saves[1].companyName = runs[r].targetCompany
             /\ Len(runs[r].saves[1].artifacts) = 3
             /\ runs[r].saves[1].artifacts[1] = runs[r].docArtifact
             /\ runs[r].saves[1].artifacts[2] = runs[r].reportArtifact
             /\ runs[r].saves[1].artifacts[1].content = runs[r].docSourcesContent
             /\ runs[r].saves[1].artifacts[2].content = runs[r].equityReportContent
             /\ runs[r].saves[1].artifacts[3].content \in StageTexts(r, 3)
             /\ Ids(runs[r].saves[1].artifacts) = StageIds
        /\ runs[r].pc # "done" => runs[r].saves = <<>>

C6_Witness ==
    \E r \in RunIds :
        /\ runs[r].pc = "done"
        /\ Len(runs[r].saves) = 1
        /\ state.companyName # runs[r].targetCompany
        /\ state.history[1].companyName = runs[r].targetCompany

\* C7: the history has at most 5 entries, at most one entry per subject
\* compared case-insensitively, and timestamps that do not increase from
\* head to tail.
C7_HistoryInvariant ==
    /\ Len(state.history) <= 5
    /\ \A i \in 1..Len(state.history), j \in 1..Len(state.history) :
         i # j => LowerNames(state.history)[i] # LowerNames(state.history)[j]
    /\ \A i \in 1..Len(state.history) - 1 :
         state.history[i].timestamp >= state.history[i + 1].timestamp

\* C7 and C8 restricted to the first version of App, whose saveToHistory
\* compares the subjects in lower case
FirstVersionHistoryInvariant == version = 1 => C7_HistoryInvariant

\* C8: saving a completed run for a subject that has an entry, compared
\* case-insensitively, removes that entry and puts the new one at the head:
\* one entry for the subject, the other entries in their earlier order.
C8_ReplacesEntryOfSameSubject ==
    [][\A r \in RunIds :
          LET old == state.history
              same(item) == ToLowerCase(item.companyName)
                              = ToLowerCase(runs[r].targetCompany)
              other(item) == ~same(item)
          IN  (Completes(r) /\ \E i \in 1..Len(old) : same(old[i])) =>
                 /\ state'.history[1].companyName = runs[r].targetCompany
                 /\ Len(SelectSeq(state'.history, same)) = 1
                 /\ Tail(state'.history) = SelectSeq(old, other)]_vars

\* C9: saving a completed run into a history that holds 5 entries, all for
\* other subjects, evicts the last entry and no other; after runs for 6
\* distinct subjects the history holds the last 5 of them, newest first.
C9_EvictsOldestOnly ==
    [][\A r \in RunIds :
          LET old == state.history
              same(item) == ToLowerCase(item.companyName)
                              = ToLowerCase(runs[r].targetCompany)
          IN  (Completes(r) /\ Len(old) = 5 /\ SelectSeq(old, same) = <<>>) =>
                 /\ Len(state'.history) = 5
                 /\ state'.history[1].companyName = runs[r].targetCompany
                 /\ state'.history[1].artifacts = Published(runs'[r])
                 /\ Tail(state'.history) = SubSeq(old, 1, 4)]_vars

\* six completed runs for six distinct subjects: the first one is gone
C9_Witness ==
    /\ Len(runs) = 6
    /\ \A r \in RunIds : runs[r].pc = "done"
    /\ \A r \in RunIds, q \in RunIds :
         r # q => ToLowerCase(runs[r].targetCompany) # ToLowerCase(runs[q].targetCompany)
    /\ Len(state.history) = 5
    /\ \A i \in 1..5 : state.history[i].companyName = runs[7 - i].targetCompany

\* C10: at most one invocation of startResearch awaits a stage call.
C10_AtMostOneLiveRun == Cardinality(LiveRuns) <= 1

\* the stage calls of an invocation that have not returned yet
InFlight(run) == IF run.pc \in Live THEN {Len(run.calls)} ELSE {}

\* C11: within an invocation the stage calls are issued in the order 1, 2, 3,
\* call k+1 only when the artifact of stage k has been published; at most one
\* call of the invocation is awaited, and it is the last one issued.
C11_StageCallsSequential ==
    \A r \in RunIds :
        LET run == runs[r]
            n == Len(run.calls)
        IN  /\ [i \in 1..n |-> run.calls[i].stage] = [i \in 1..n |-> i]
            /\ n <= Len(Published(run)) + 1
            /\ Cardinality(InFlight(run)) <= 1
            /\ run.pc \in Live => n = StageOf(run.pc) /\ Len(Published(run)) = n - 1
            /\ \A k \in 2..n : run.calls[k].context # Undefined

C11_Witness ==
    \E r \in RunIds :
        /\ runs[r].pc = "stage3"
        /\ Len(runs[r].calls) = 3
        /\ Len(Published(runs[r])) = 2
        /\ state.artifacts = Published(runs[r])

\* C13: the third stage is called with the subject of the invocation and the
\* content of the stage-2 artifact, the report text, and nothing else.
C13_MemoContextIsReport ==
    \A r \in RunIds :
        Len(runs[r].calls) >= 3 =>
            /\ runs[r].calls[3].companyName = runs[r].targetCompany
            /\ runs[r].calls[3].context = runs[r].reportArtifact.content
            /\ runs[r].calls[3].context = runs[r].equityReportContent

\* C12: the content of the Stage-1 artifact is the text of the response
\* annotated by verifyPdfLinks, not the text as the model returned it, and
\* the second stage is called with the subject and that annotated content.
C12_SourcesAnnotated ==
    \A r \in RunIds :
        runs[r].docArtifact # NoArtifact =>
            LET run == runs[r]
                content == run.docArtifact.content
            IN  /\ \E outcomeOf \in SpecProbes(run.rawMarkdown) :
                       content = Render(VerifyPdfLinks(run.rawMarkdown, outcomeOf))
                /\ content # Render(run.rawMarkdown)
                /\ Len(run.calls) >= 2
                /\ run.calls[2] = StageCall(2, run.targetCompany, content)

(***************************************************************************)
(* Vocabulary of the properties of verifyPdfLinks.                         *)
(***************************************************************************)
\* the occurrences of URLs in a text, as pairs of positions, leftmost first
RECURSIVE Occurrences(_, _)
Occurrences(text, i) ==
    IF i > Len(text) THEN {}
    ELSE LET j == IF text[i] = Scheme THEN LazyMatch(text, i, i + 2) ELSE 0
         IN  IF j = 0 THEN Occurrences(text, i + 1)
             ELSE {<<i, j>>} \cup Occurrences(text, j + 1)

\* the text has a substring that matches the URL pattern
HasUrl(text) ==
    \E i \in 1..Len(text), j \in 1..Len(text) :
        /\ j >= i + 2
        /\ text[i] = Scheme
        /\ text[j] \in Suffixes
        /\ \A k \in (i + 1)..(j - 1) : text[k] \in UrlChars

\* the markers that follow position j directly
RECURSIVE MarkerRun(_, _)
MarkerRun(text, j) ==
    IF j + 1 <= Len(text) /\ text[j + 1] \in Markers
    THEN <<text[j + 1]>> \o MarkerRun(text, j + 1)
    ELSE <<>>

IsNoMarker(piece) == piece \notin Markers

\* the text up to the first verification report
RECURSIVE Body(_)
Body(text) ==
    IF text = <<>> \/ text[1] = SummaryHeader THEN <<>>
    ELSE <<text[1]>> \o Body(Tail(text))

\* the lines of the last verification report of the text
RECURSIVE LastReport(_)
LastReport(text) ==
    IF text = <<>> \/ text[Len(text)] = SummaryHeader THEN <<>>
    ELSE Append(LastReport(SubSeq(text, 1, Len(text) - 1)), text[Len(text)])

\* the content types that contain "pdf" in some case
PdfContentTypes == {"application/pdf", "Application/PDF"}

\* the probes of the call that have settled, and the status of each
Settled == {k \in 1..Len(vf.probes) : vf.probes[k] # Pending}

StatusOf(k) == Results(vf.urls, vf.probes)[k].status

StatusOfUrl(url) == StatusOf(CHOOSE k \in 1..Len(vf.urls) : vf.urls[k] = url)

MarkerOf(status) ==
    CASE status = "verified" -> <<MarkVerified>>
      [] status = "invalid" -> <<MarkInvalid>>
      [] status = "dead" -> <<MarkDead>>
      [] OTHER -> <<>>

Returned == vf.pc = "returned" /\ Len(vf.urls) > 0

\* C14: every probe that has settled has one of the four statuses: verified
\* iff the response is ok and its content type contains "pdf" in any case,
\* invalid iff the response is ok and the content type is missing or
\* without "pdf", dead iff the response is not ok, unverifiable iff fetch
\* raised an error.
C14_StatusOfProbe ==
    \A k \in Settled :
        LET o == vf.probes[k]
            s == StatusOf(k)
        IN  /\ s \in {"verified", "invalid", "dead", "unverifiable"}
            /\ s = "verified" <=>
                 (o.kind = "response" /\ o.ok /\ o.contentType \in PdfContentTypes)
            /\ s = "invalid" <=>
                 (o.kind = "response" /\ o.ok /\ o.contentType \notin PdfContentTypes)
            /\ s = "dead" <=> (o.kind = "response" /\ ~o.ok)
            /\ s = "unverifiable" <=> o.kind = "error"

C14_Witness ==
    /\ Returned
    /\ \E k \in Settled : vf.probes[k] = Response(TRUE, "Application/PDF")
                            /\ StatusOf(k) = "verified"
    /\ \E k \in Settled : vf.probes[k] = Response(TRUE, Null) /\ StatusOf(k) = "invalid"
    /\ \E k \in Settled : vf.probes[k] = Rejection("AbortError")
                            /\ StatusOf(k) = "unverifiable"

\* C15: a call fetches every distinct URL of the text once, however often
\* the URL occurs, and no URL is fetched again when its probe has settled.
C15_OneProbePerUrl ==
    vf.pc \in {"probing", "returned"} =>
        LET found == MatchAll(vf.markdown, 1)
        IN  /\ \A i \in 1..Len(found) :
                 Cardinality({k \in 1..Len(vf.fetched) : vf.fetched[k] = found[i]}) = 1
            /\ \A k \in 1..Len(vf.fetched) : Contains(found, vf.fetched[k])
            /\ Len(vf.probes) = Len(vf.fetched)

C15_Witness ==
    /\ Returned
    /\ vf.pass = 1
    /\ LET found == MatchAll(vf.markdown, 1)
       IN  Len(found) = 3 /\ found[1] = found[2] /\ found[2] = found[3]
    /\ Len(vf.fetched) = 1
    /\ vf.probes[1] = Rejection("AbortError")

\* C16: in the text a call returns, every occurrence of a URL is followed by
\* exactly one marker, the marker of the status of that URL, or by no
\* marker when the URL is unverifiable; nothing else of the text is changed.
\* This holds also when one URL of the text is a substring of another.
C16_OneMarkerPerOccurrence ==
    (Returned /\ vf.pass = 1) =>
        LET body == Body(vf.output)
        IN  /\ SelectSeq(body, IsNoMarker) = vf.markdown
            /\ \A span \in Occurrences(body, 1) :
                 MarkerRun(body, span[2])
                    = MarkerOf(StatusOfUrl(SubSeq(body, span[1], span[2])))

\* the URLs of the first call and of this call are the same
SameUrlSet ==
    {vf.urls[k] : k \in 1..Len(vf.urls)} = {vf.prior[i].url : i \in 1..Len(vf.prior)}

\* C17: when verifyPdfLinks is run on the text it returned, with the same
\* URLs and the same probe outcomes, every occurrence of a URL in the text
\* of the second call is followed by at most one marker.
C17_SecondPassAddsNoMarker ==
    (Returned /\ vf.pass = 2 /\ SameUrlSet) =>
        \A span \in Occurrences(vf.output, 1) :
            Len(MarkerRun(vf.output, span[2])) <= 1

\* the results of the call: is a URL invalid or dead, how many are unverifiable
Issues == \E k \in Settled : StatusOf(k) \in {"invalid", "dead"}

Unverifiable == Cardinality({k \in Settled : StatusOf(k) = "unverifiable"})

\* C18 as stated: the report of a call that found a URL holds one line: the
\* alert if a URL is invalid or dead, otherwise the note with the number of
\* unverifiable URLs if there is one, otherwise the success line.
C18_OneLineByPriority ==
    Returned =>
        LastReport(vf.output) =
            IF Issues THEN <<AlertLine>>
            ELSE IF Unverifiable > 0 THEN <<NoteLine(Unverifiable)>>
            ELSE <<SuccessLine>>

\* C18 amended: the report holds the alert line iff a URL is invalid or
\* dead, and the note line with the number of unverifiable URLs iff there is
\* one, also after the alert line; it holds the success line iff it holds
\* neither; so it has one line, or the alert followed by the note.
C18_ReportLines ==
    Returned =>
        LET lines == LastReport(vf.output)
        IN  /\ Contains(lines, AlertLine) <=> Issues
            /\ Contains(lines, NoteLine(Unverifiable)) <=> Unverifiable > 0
            /\ Contains(lines, SuccessLine) <=> (~Issues /\ Unverifiable = 0)
            /\ Len(lines) = IF Issues /\ Unverifiable > 0 THEN 2 ELSE 1
            /\ Len(lines) = 2 => lines[1] = AlertLine

C18_Witness ==
    /\ Returned
    /\ vf.pass = 1
    /\ Issues
    /\ Unverifiable = 1
    /\ LastReport(vf.output) = <<AlertLine, NoteLine(1)>>

\* C19: a call on a text without a substring that matches the URL pattern
\* starts no probe and returns the text as it is, without a report.
C19_NoUrlNoChange ==
    ~HasUrl(vf.markdown) =>
        /\ vf.pc \in {"called", "returned"}
        /\ vf.fetched = <<>>
        /\ vf.pc = "returned" =>
             vf.output = vf.markdown /\ ~Contains(vf.output, SummaryHeader)

C19_Witness ==
    /\ vf.pc = "returned"
    /\ ~HasUrl(vf.markdown)
    /\ Contains(vf.markdown, Scheme)
    /\ Contains(vf.markdown, ".pdf")
    /\ vf.output = vf.markdown

\* C20: the probes of a call are all started in one step, before any of
\* them settles; the call returns only when every probe has settled, and
\* the text it returns is annotated for every URL, whatever the order in
\* which the probes settled.
C20_ReturnsAfterAllProbes ==
    /\ vf.pc = "probing" => vf.fetched = vf.urls
    /\ Returned =>
         /\ Settled = 1..Len(vf.urls)
         /\ \A k \in 1..Len(vf.urls) :
              MarkerOf(StatusOf(k)) # <<>> =>
                  Contains(vf.output, MarkerOf(StatusOf(k))[1])
         /\ Unverifiable > 0 => Contains(vf.output, NoteLine(Unverifiable))

\* the last probe has settled before the first and the second
C20_Witness ==
    /\ vf.pc = "probing"
    /\ Len(vf.urls) = 3
    /\ vf.fetched = vf.urls
    /\ Settled = {3}
    /\ StatusOf(3) = "dead"

\* C21: when the timer of one probe expires, that probe alone is aborted
\* and becomes unverifiable; no other probe of the call changes in that
\* step, and in the text the call returns every probe that got a response
\* has the status of its response.
C21_TimeoutAbortsOneProbe ==
    /\ [][(vf.pc = "probing" /\ vf'.pc = "probing") =>
             \A k \in 1..Len(vf.probes) :
                 (vf.probes[k] = Pending /\ vf'.probes[k] = Rejection("AbortError")) =>
                     \A j \in 1..Len(vf.probes) :
                         j # k => vf'.probes[j] = vf.probes[j]]_vars
    /\ [](Returned =>
             \A k \in 1..Len(vf.probes) :
                 /\ vf.probes[k] = Rejection("AbortError") => StatusOf(k) = "unverifiable"
                 /\ vf.probes[k].kind = "response" =>
                      StatusOf(k) \in {"verified", "invalid", "dead"})

\* a call has returned: the first probe timed out, the second was verified
C21_Witness ==
    /\ Returned
    /\ vf.pass = 1
    /\ Len(vf.urls) >= 2
    /\ vf.probes[1] = Rejection("AbortError")
    /\ StatusOf(1) = "unverifiable"
    /\ StatusOf(2) = "verified"
    /\ Contains(vf.output, MarkVerified)
    /\ Contains(vf.output, NoteLine(1))

\* C22: once generateContent of Stage 1 has resolved, the invocation stays
\* at stage 1 while probes are pending and never fails there, whatever the
\* outcomes of the probes; the step in which the last probe settles takes
\* it to the second stage and the state to REPORT with the Stage-1 artifact.
C22_ProbesNeverFailTheRun ==
    /\ [][\A r \in RunIds :
             (Verifying(r) /\ runs'[r] # runs[r]) =>
                 \/ Verifying(r)' /\ ~AllSettled(runs'[r].probes)
                 \/ /\ AllSettled(runs'[r].probes)
                    /\ runs'[r].pc = "stage2"
                    /\ Len(runs'[r].calls) = 2
                    /\ state'.currentStep = REPORT
                    /\ state'.artifacts = <<runs'[r].docArtifact>>
                    /\ state'.error = Undefined]_vars
    /\ [](\A r \in RunIds : runs[r].failedAt = 1 => runs[r].rawMarkdown = <<>>)

\* the probe of the Stage-1 link was aborted by its timer, the run goes on
C22_Witness ==
    \E r \in RunIds : \E raw \in RawSources(r) :
        /\ version = 1
        /\ runs[r].pc = "stage2"
        /\ runs[r].rawMarkdown = raw
        /\ runs[r].probes = <<Rejection("AbortError")>>
        /\ runs[r].docSourcesContent =
              Render(VerifyPdfLinks(raw, [u \in UrlSet(raw) |-> Rejection("AbortError")]))
        /\ state.currentStep = REPORT

\* invocation r begins in this step
Starts(r) == r = Len(runs) + 1 /\ Len(runs') = r

\* C23: the step in which a stage call is rejected leaves isProcessing
\* false, with currentStep ERROR or IDLE; whenever the form is shown with a
\* subject and isProcessing is false, startResearch is accepted, and the
\* step that begins an invocation sets currentStep = DOCUMENTS, an empty
\* artifact list and no error.
C23_NewRunAfterFailure ==
    /\ [][\A r \in RunIds :
             Fails(r) => ~state'.isProcessing /\ state'.currentStep \in {ERROR, IDLE}]_vars
    /\ []((MainScreen /\ Truthy(state.companyName) /\ ~state.isProcessing
              /\ Len(runs) < MaxRuns) => ENABLED StartResearch(MaxRuns))
    /\ [][\A r \in 1..MaxRuns :
             Starts(r) =>
                 /\ runs'[r].pc = "stage1"
                 /\ Truthy(runs'[r].targetCompany)
                 /\ state'.isProcessing
                 /\ state'.currentStep = DOCUMENTS
                 /\ state'.artifacts = <<>>
                 /\ state'.error = Undefined]_vars

\* the first invocation failed at its second stage with an artifact
\* published and an error shown; the second one has begun since
C23_Witness ==
    /\ Len(runs) = 2
    /\ runs[1].pc = "failed" /\ runs[1].failedAt = 2
    /\ runs[2].pc = "stage1"
    /\ state.isProcessing
    /\ state.currentStep = DOCUMENTS
    /\ state.artifacts = <<>>
    /\ state.error = Undefined

\* C24: whenever currentStep is ERROR the error field holds a non-empty
\* message, also when the rejected call's error has an empty message.
C24_FailedHasMessage == state.currentStep = ERROR => Truthy(state.error)

C24_Witness ==
    \E r \in RunIds :
        /\ runs[r].pc = "failed"
        /\ runs[r].err = ""
        /\ state.currentStep = ERROR
        /\ state.error = IF version = 1 THEN DefaultErrorV1 ELSE DefaultErrorV2

\* C25: an invocation of startResearch begins only in a state whose
\* hasApiKey is true; the reauthorization branch sets hasApiKey to false,
\* so no invocation begins after it until hasApiKey is true again.
C25_NoRunWithoutKey ==
    /\ [][\A r \in 1..MaxRuns : Starts(r) => hasApiKey = "true"]_vars
    /\ [][\A r \in RunIds :
             (Fails(r) /\ runs'[r].pc = "reauth") => hasApiKey' = "false"]_vars

\* the first invocation ended in the reauthorization branch; the key was
\* connected again and the second invocation has begun
C25_Witness ==
    /\ Len(runs) = 2
    /\ runs[1].pc = "reauth"
    /\ runs[2].pc = "stage1"
    /\ state.currentStep = DOCUMENTS
    /\ hasApiKey = "true"

\* C26: every step in which an invocation publishes an artifact appends
\* that one artifact to the list that was published before the step.
C26_PublishOnlyAppends ==
    [][\A r \in RunIds :
          (runs[r].pc \in Live /\ runs'[r].pc \in {"stage2", "stage3", "done"}
              /\ runs'[r].pc # runs[r].pc) =>
                 /\ IsPrefix(state.artifacts, state'.artifacts)
                 /\ Len(state'.artifacts) = Len(state.artifacts) + 1]_vars

\* C27: hasApiKey becomes true only when the credential probe reports true
\* or when the component is mounted with a key in the environment.
C27_TrueOnlyFromProbe ==
    [][(hasApiKey # "true" /\ hasApiKey' = "true") => (CheckKey(TRUE) \/ Mount)]_vars

\* C28: no invocation begins in a state whose subject is empty or whose
\* isProcessing is true: startResearch is then refused, the state is left
\* as it is and no stage call is issued.
C28_RefusedStartIsNoOp ==
    /\ [][\A r \in 1..MaxRuns :
             Starts(r) => state.companyName # "" /\ ~state.isProcessing]_vars
    /\ []((state.companyName = "" \/ state.isProcessing) =>
              ~ENABLED StartResearch(MaxRuns))

\* the form holds a subject while an invocation is processing
C28_Witness ==
    /\ MainScreen
    /\ Len(runs) = 1
    /\ runs[1].pc = "stage2"
    /\ state.isProcessing
    /\ state.companyName = runs[1].targetCompany
    /\ Len(runs[1].calls) = 2

\* C29: isProcessing is true iff currentStep is DOCUMENTS, REPORT or MEMO.
C29_ProcessingIffStageStep ==
    state.isProcessing <=> state.currentStep \in {DOCUMENTS, REPORT, MEMO}

\* C30: the number of artifacts follows from currentStep: 0 in IDLE and
\* DOCUMENTS, 1 in REPORT, 2 in MEMO, 3 in COMPLETED, at most 2 in ERROR.
C30_ArtifactCountByStep ==
    /\ state.currentStep \in {IDLE, DOCUMENTS} => Len(state.artifacts) = 0
    /\ state.currentStep = REPORT => Len(state.artifacts) = 1
    /\ state.currentStep = MEMO => Len(state.artifacts) = 2
    /\ state.currentStep = COMPLETED => Len(state.artifacts) = 3
    /\ state.currentStep = ERROR => Len(state.artifacts) <= 2

\* C31: the error field is undefined in every state whose currentStep is
\* not ERROR.
C31_ErrorOnlyWhenFailed == state.currentStep # ERROR => state.error = Undefined

\* reset() was called while invocation r awaited a stage call, and r is
\* still awaiting
Abandoned(r) ==
    /\ r \in RunIds
    /\ runs[r].pc \in Live
    /\ runs[r].abandoned

\* C32: a step of an invocation that reset() has abandoned changes neither
\* the state (currentStep, artifacts, error, history) nor the store.
C32_AbandonedRunHasNoEffect ==
    [][\A r \in RunIds :
          (Abandoned(r) /\ runs'[r] # runs[r]) =>
              (state' = state /\ store' = store)]_vars

\* C33: reset and loadFromHistory leave state.history and the store as they
\* are; they change only in the step in which an invocation completes.
C33_HistoryChangesOnlyOnSave ==
    /\ [][(Reset \/ \E i \in 1..HistoryLimit : LoadFromHistory(i)) =>
             (state'.history = state.history /\ store' = store)]_vars
    /\ [][(state'.history # state.history \/ store' # store) =>
             \E r \in RunIds : Completes(r)]_vars

\* the first invocation was saved, the second failed, and after a reset
\* the saved analysis was loaded from the history list, which still holds it
C33_Witness ==
    /\ Len(runs) = 2
    /\ runs[1].pc = "done"
    /\ runs[2].pc = "failed"
    /\ runs[2].targetCompany # runs[1].targetCompany
    /\ state.currentStep = COMPLETED
    /\ state.companyName = runs[1].targetCompany
    /\ state.artifacts = runs[1].saves[1].artifacts
    /\ Len(state.history) = 1
    /\ state.history[1].artifacts = state.artifacts
    /\ store # <<>>

\* invocation r has returned: COMPLETED, ERROR or the reauthorization IDLE
Ended(r) == r \in RunIds /\ runs[r].pc \in {"done", "failed", "reauth"}

\* C34: when every stage call settles, every invocation that has started
\* returns, and the step in which it returns leaves isProcessing false; an
\* invocation that awaits the probes of verifyPdfLinks stops awaiting them,
\* every probe settling by response, error or its own timer.
C34_EveryRunEnds ==
    /\ \A r \in 1..LiveMaxRuns :
          (r \in RunIds /\ runs[r].pc \in Live) ~> Ended(r)
    /\ \A r \in 1..LiveMaxRuns : Verifying(r) ~> ~Verifying(r)
    /\ [][\A r \in RunIds :
             (Completes(r) \/ Fails(r)) => ~state'.isProcessing]_vars

\* the probe of the Stage-1 link was aborted by its timer, verifyPdfLinks
\* returned and the invocation went on to COMPLETED
C34_Witness ==
    /\ version = 1
    /\ Len(runs) = 1
    /\ runs[1].pc = "done"
    /\ runs[1].rawMarkdown \in RawSources(1)
    /\ runs[1].probes = <<Rejection("AbortError")>>
    /\ state.currentStep = COMPLETED
    /\ ~state.isProcessing

====
